---- MODULE Spec2Model ----
(***************************************************************************)
(* A model of websockets/http.py: the readers of an HTTP/1.1 request or    *)
(* response without a body, as used by the WebSocket handshake.            *)
(*                                                                         *)
(* Bytes are the integers 0..255 and a bytes object is a sequence of them. *)
(* A str is the sequence of its code points.  A stream is the sequence of  *)
(* the values its successive readline() calls return; once they are used   *)
(* up, readline() returns the empty bytes object (end of input).           *)
(* An exception is named by the message the code raises it with, or, for   *)
(* an exception raised by a builtin, by what Python calls it.              *)
(***************************************************************************)
EXTENDS Integers, Sequences, FiniteSets, TLC

VARIABLES
    stream,        \* what the successive stream.readline() calls return
    pos,           \* the number of stream.readline() calls made so far
    reader,        \* the coroutine that was called on the stream
    pc,            \* where the coroutine stands
    num,           \* read_message: the loop variable of line 59
    start_line,    \* read_message: the local of line 57
    header_lines,  \* read_message: the content of the io.BytesIO of line 58
    outcome,       \* what the coroutine returned or raised
    peer           \* a second coroutine, on a stream of its own, and its stream

vars == <<stream, pos, reader, pc, num, start_line, header_lines, outcome, peer>>

(***************************************************************************)
(* Program constants.                                                      *)
(***************************************************************************)
MAX_HEADERS == 256
MAX_LINE == 4096

CRLF == <<13, 10>>                              \* b'\r\n'
GET == <<71, 69, 84>>                            \* 'GET'
HTTP11 == <<72, 84, 84, 80, 47, 49, 46, 49>>     \* 'HTTP/1.1'

LineTooLong == "Line too long"
MissingTerminator == "Line without CRLF"
TooManyHeaders == "Too many headers"
UnsupportedMethod == "Unsupported method"
UnsupportedVersion == "Unsupported HTTP version"
\* Exceptions the builtins raise: the tuple unpacking of lines 26 and 43,
\* int() of line 46, bytes.decode() of lines 26 and 43.
NotEnoughValues == "not enough values to unpack"
InvalidStatus == "invalid literal for int() with base 10"
UnicodeDecodeError == "UnicodeDecodeError"

NoError == ""

(***************************************************************************)
(* Sequences.                                                              *)
(***************************************************************************)
Min(S) == CHOOSE x \in S : \A y \in S : x <= y

\* s[a..b], empty when b < a.
Slice(s, a, b) == [i \in 1..(b - a + 1) |-> s[a + i - 1]]

\* bytes.endswith
EndsWith(s, suffix) ==
    /\ Len(s) >= Len(suffix)
    /\ \A i \in 1..Len(suffix) : s[Len(s) - Len(suffix) + i] = suffix[i]

\* The first index i >= from with s[i] in S (FirstIn) or not in S
\* (FirstNotIn), and Len(s) + 1 when there is none.
FirstIn(s, from, S) ==
    LET hits == {i \in from..Len(s) : s[i] \in S}
    IN  IF hits = {} THEN Len(s) + 1 ELSE Min(hits)

FirstNotIn(s, from, S) ==
    LET hits == {i \in from..Len(s) : s[i] \notin S}
    IN  IF hits = {} THEN Len(s) + 1 ELSE Min(hits)

(***************************************************************************)
(* read_line (lines 71-81), applied to what stream.readline() returned.    *)
(***************************************************************************)
Raise(e) == [error |-> e, value |-> <<>>]
Return(v) == [error |-> NoError, value |-> v]

\* The length test of line 77 off by one.
read_line_limit_off_by_one(line) ==
    IF Len(line) >= MAX_LINE THEN Raise(LineTooLong)
    ELSE IF ~EndsWith(line, CRLF) THEN Raise(MissingTerminator)
    ELSE Return(line)

\* Without the test of line 79.
read_line_unterminated(line) ==
    IF Len(line) > MAX_LINE THEN Raise(LineTooLong)
    ELSE Return(line)

\* The tests of lines 77 and 79 in the other order.
read_line_terminator_first(line) ==
    IF ~EndsWith(line, CRLF) THEN Raise(MissingTerminator)
    ELSE IF Len(line) > MAX_LINE THEN Raise(LineTooLong)
    ELSE Return(line)

read_line(line) ==
    IF Len(line) > MAX_LINE THEN Raise(LineTooLong)
    ELSE IF ~EndsWith(line, CRLF) THEN Raise(MissingTerminator)
    ELSE Return(line)

(***************************************************************************)
(* bytes.decode() (lines 26, 43): strict UTF-8.  Utf8Len is the number of  *)
(* bytes of the well-formed character that starts at b[i], 0 when there is *)
(* none; overlong forms, surrogates and code points above U+10FFFF are     *)
(* malformed.                                                              *)
(***************************************************************************)
IsCont(b, i) == i <= Len(b) /\ b[i] \in 128..191

Utf8Len(b, i) ==
    LET c == b[i]
        second(lo, hi) == i + 1 <= Len(b) /\ b[i + 1] \in lo..hi
    IN  IF c < 128 THEN 1
        ELSE IF c \in 194..223 /\ IsCont(b, i + 1) THEN 2
        ELSE IF /\ \/ c = 224 /\ second(160, 191)
                   \/ c \in (225..236) \cup {238, 239} /\ second(128, 191)
                   \/ c = 237 /\ second(128, 159)
                /\ IsCont(b, i + 2) THEN 3
        ELSE IF /\ \/ c = 240 /\ second(144, 191)
                   \/ c \in 241..243 /\ second(128, 191)
                   \/ c = 244 /\ second(128, 143)
                /\ IsCont(b, i + 2)
                /\ IsCont(b, i + 3) THEN 4
        ELSE 0

Utf8Point(b, i, n) ==
    CASE n = 1 -> b[i]
      [] n = 2 -> (b[i] - 192) * 64 + (b[i + 1] - 128)
      [] n = 3 -> (b[i] - 224) * 4096 + (b[i + 1] - 128) * 64 + (b[i + 2] - 128)
      [] n = 4 -> (b[i] - 240) * 262144 + (b[i + 1] - 128) * 4096
                      + (b[i + 2] - 128) * 64 + (b[i + 3] - 128)

RECURSIVE Utf8Decode(_, _, _)
Utf8Decode(b, i, acc) ==
    IF i > Len(b) THEN Return(acc)
    ELSE LET n == Utf8Len(b, i)
         IN  IF n = 0 THEN Raise(UnicodeDecodeError)
             ELSE Utf8Decode(b, i + n, Append(acc, Utf8Point(b, i, n)))

\* An ASCII byte decodes to the code point of the same number.
decode(b) ==
    IF \A i \in 1..Len(b) : b[i] < 128 THEN Return(b)
    ELSE Utf8Decode(b, 1, <<>>)

(***************************************************************************)
(* str.split(None, 2) (lines 26, 43): at most three fields, separated by   *)
(* runs of whitespace; leading whitespace is dropped, and the third field  *)
(* is the remainder of the string, whitespace included.                    *)
(***************************************************************************)
Whitespace ==
    (9..13) \cup (28..32) \cup {133, 160, 5760} \cup (8192..8202)
        \cup {8232, 8233, 8239, 8287, 12288}

IsSpace(c) == c \in Whitespace

\* Two fields and nothing after them give an empty third field.
split_empty_third(s) ==
    LET n  == Len(s)
        a1 == FirstNotIn(s, 1, Whitespace)
        e1 == FirstIn(s, a1, Whitespace)
        a2 == FirstNotIn(s, e1, Whitespace)
        e2 == FirstIn(s, a2, Whitespace)
        a3 == FirstNotIn(s, e2, Whitespace)
    IN  IF a1 > n THEN <<>>
        ELSE IF a2 > n THEN <<Slice(s, a1, e1 - 1)>>
        ELSE IF a3 > n THEN <<Slice(s, a1, e1 - 1), Slice(s, a2, e2 - 1), <<>>>>
        ELSE <<Slice(s, a1, e1 - 1), Slice(s, a2, e2 - 1), Slice(s, a3, n)>>

split(s) ==
    LET n  == Len(s)
        a1 == FirstNotIn(s, 1, Whitespace)
        e1 == FirstIn(s, a1, Whitespace)
        a2 == FirstNotIn(s, e1, Whitespace)
        e2 == FirstIn(s, a2, Whitespace)
        a3 == FirstNotIn(s, e2, Whitespace)
    IN  IF a1 > n THEN <<>>
        ELSE IF a2 > n THEN <<Slice(s, a1, e1 - 1)>>
        ELSE IF a3 > n THEN <<Slice(s, a1, e1 - 1), Slice(s, a2, e2 - 1)>>
        ELSE <<Slice(s, a1, e1 - 1), Slice(s, a2, e2 - 1), Slice(s, a3, n)>>

(***************************************************************************)
(* int() (line 46): surrounding whitespace is dropped; then an optional    *)
(* sign and decimal digits, where single underscores may stand between     *)
(* digits.  The digits are the decimal digits of every script: the         *)
(* characters of category Nd, which stand in runs of ten, from the zero of *)
(* the script to its nine.  The whitespace int() drops is that of split()  *)
(* without the separators U+001C..U+001F.                                  *)
(***************************************************************************)
\* The zeros of the scripts: U+0030, U+0660 (Arabic-Indic), U+06F0, ...
DigitZeros ==
    {48, 1632, 1776, 1984, 2406, 2534, 2662, 2790, 2918, 3046, 3174, 3302,
     3430, 3558, 3664, 3792, 3872, 4160, 4240, 6112, 6160, 6470, 6608, 6784,
     6800, 6992, 7088, 7232, 7248, 42528, 43216, 43264, 43472, 43504, 43600,
     44016, 65296, 66720, 68912, 69734, 69872, 69942, 70096, 70384, 70736,
     70864, 71248, 71360, 71472, 71904, 72016, 72784, 73040, 73120, 92768,
     92864, 93008, 120782, 120792, 120802, 120812, 120822, 123200, 123632,
     125264, 130032}

IsDigit(c) == \E z \in DigitZeros : c \in z..(z + 9)
DigitValue(c) == c - (CHOOSE z \in DigitZeros : c \in z..(z + 9))

IntWhitespace == Whitespace \ (28..31)

RECURSIVE DigitsValue(_)
DigitsValue(ds) ==
    IF ds = <<>> THEN 0
    ELSE 10 * DigitsValue(Slice(ds, 1, Len(ds) - 1)) + DigitValue(ds[Len(ds)])

int(s) ==
    LET first  == FirstNotIn(s, 1, IntWhitespace)
        after  == {i \in first..Len(s) : \A j \in i..Len(s) : s[j] \in IntWhitespace}
        last   == IF after = {} THEN Len(s) ELSE Min(after) - 1
        t      == Slice(s, first, last)
        signed == t # <<>> /\ t[1] \in {43, 45}
        body   == IF signed THEN Slice(t, 2, Len(t)) ELSE t
        wellFormed ==
            /\ body # <<>>
            /\ \A i \in 1..Len(body) : IsDigit(body[i]) \/ body[i] = 95
            /\ IsDigit(body[1]) /\ IsDigit(body[Len(body)])
            /\ \A i \in 1..(Len(body) - 1) : ~(body[i] = 95 /\ body[i + 1] = 95)
        magnitude == DigitsValue(SelectSeq(body, IsDigit))
    IN  IF ~wellFormed THEN Raise(InvalidStatus)
        ELSE IF signed /\ t[1] = 45 THEN Return(0 - magnitude)
        ELSE Return(magnitude)

(***************************************************************************)
(* email.parser.BytesHeaderParser().parse (line 67).  The parser reads the *)
(* buffer through a TextIOWrapper (encoding 'ascii', errors                *)
(* 'surrogateescape') with universal newlines: a byte below 128 is the     *)
(* character of that code, a byte b from 128 on is the lone surrogate      *)
(* U+DC00 + b, and each of \r\n, \r and \n ends a line and is read as \n.  *)
(* The header lines are the lines up to the first one that is no header,   *)
(* continuation or envelope line; what follows them is the payload.  A     *)
(* message is modelled by what the parser stores in it: its raw_items()    *)
(* (names and values as sequences of code points, surrogates included),    *)
(* its defects (by class name) and its stored payload (_payload).  What    *)
(* Message.items() makes of the stored headers is the operator items      *)
(* below.  get_payload(), which reads the charset of the Content-Type      *)
(* header to present the surrogates of the payload, is not modelled.  The  *)
(* buffer read_message passes always ends with CRLF.                       *)
(***************************************************************************)
\* errors='surrogateescape' of the ASCII codec, on a sequence of bytes.
surrogateescape(bytes) ==
    [i \in 1..Len(bytes) |-> IF bytes[i] < 128 THEN bytes[i] ELSE 56320 + bytes[i]]

LineEnds(buf) ==
    {i \in 1..Len(buf) :
        \/ buf[i] = 10
        \/ buf[i] = 13 /\ ~(i < Len(buf) /\ buf[i + 1] = 10)}

\* The lines of buf from index `from` on, cut after each index of ends.  A
\* buffer holding a line end before its last index is cut at the line end
\* nearest to its middle and its two parts are split in turn, which gives
\* the lines in their order whatever their number.
RECURSIVE LinesFrom(_, _, _)
LinesFrom(buf, from, ends) ==
    IF from > Len(buf) THEN <<>>
    ELSE LET rest  == {e \in ends : from <= e /\ e <= Len(buf)}
             inner == rest \ {Len(buf)}
         IN  IF inner = {}
             THEN LET e    == Len(buf)
                      body == IF rest = {} THEN e
                              ELSE IF buf[e] = 10 /\ e > from /\ buf[e - 1] = 13 THEN e - 2
                              ELSE e - 1
                      text == surrogateescape(Slice(buf, from, body))
                  IN  <<IF rest = {} THEN text ELSE Append(text, 10)>>
             ELSE LET mid   == (from + Len(buf)) \div 2
                      upper == {e \in inner : e >= mid}
                      e     == IF upper # {} THEN Min(upper)
                               ELSE CHOOSE x \in inner : \A y \in inner : y <= x
                  IN  LinesFrom(Slice(buf, 1, e), from, rest) \o LinesFrom(buf, e + 1, rest)

splitlines(buf) == LinesFrom(buf, 1, LineEnds(buf))

StartsWith(s, prefix) ==
    /\ Len(s) >= Len(prefix)
    /\ \A i \in 1..Len(prefix) : s[i] = prefix[i]

FromSpace == <<70, 114, 111, 109, 32>>           \* 'From '

\* headerRE: ^(From |[\041-\071\073-\176]*:|[\t ])
IsHeaderLine(l) ==
    \/ StartsWith(l, FromSpace)
    \/ l # <<>> /\ l[1] \in {9, 32}
    \/ LET c == FirstIn(l, 1, {58})
       IN  c <= Len(l) /\ \A i \in 1..(c - 1) : l[i] \in (33..57) \cup (59..126)

\* NLCRE: the line starts with a line end.
IsBlankLine(l) == l # <<>> /\ l[1] \in {10, 13}

\* policy.header_source_parse: the name as written; the value is what
\* follows the first colon, without leading blanks and tabs and without
\* trailing line ends.
header_source_parse(name, raw) ==
    LET colon == FirstIn(raw, 1, {58})
        first == FirstNotIn(raw, colon + 1, {9, 32})
        tail  == {i \in first..Len(raw) : \A j \in i..Len(raw) : raw[j] \in {10, 13}}
        last  == IF tail = {} THEN Len(raw) ELSE Min(tail) - 1
    IN  <<name, Slice(raw, first, last)>>

\* FeedParser._parse_headers.  last is <<>> or <<name, raw lines>> of the
\* header being collected; msg holds the raw items and the defects so far and,
\* as payload, an envelope line handed back to the input.
Flush(last, msg) ==
    IF last = <<>> THEN msg
    ELSE [msg EXCEPT !.raw_items = Append(@, header_source_parse(last[1], last[2]))]

Defect(msg, d) == [msg EXCEPT !.defects = Append(@, d)]

\* One turn of the loop of _parse_headers, on the line lines[i]; st holds
\* last and msg as they stand before the turn.  An envelope line that is
\* the last of the lines is handed back to the input and ends the loop.
ParseHeaderLine(lines, i, st) ==
    LET l == lines[i]
        flushed == Flush(st.last, st.msg)
        colon == FirstIn(l, 1, {58})
    IN  IF l[1] \in {9, 32}
        THEN IF st.last = <<>>
             THEN [st EXCEPT !.msg = Defect(@, "FirstHeaderLineIsContinuationDefect")]
             ELSE [st EXCEPT !.last = <<@[1], @[2] \o l>>]
        ELSE IF StartsWith(l, FromSpace)
        THEN IF i = 1 THEN [last |-> <<>>, msg |-> flushed]
             ELSE IF i = Len(lines)
             THEN [last |-> <<>>, msg |-> [flushed EXCEPT !.payload = l]]
             ELSE [last |-> <<>>,
                   msg |-> Defect(flushed, "MisplacedEnvelopeHeaderDefect")]
        ELSE IF colon = 1
        THEN [last |-> <<>>, msg |-> Defect(flushed, "InvalidHeaderDefect")]
        ELSE [last |-> <<Slice(l, 1, colon - 1), l>>, msg |-> flushed]

\* The turns of the loop on the lines a..b, in their order: those of the
\* first half of the lines, then, unless the loop has ended by handing a
\* line back, those of the second half from where the first half ends.
RECURSIVE ParseHeaderLines(_, _, _, _)
ParseHeaderLines(lines, a, b, st) ==
    IF a > b THEN st
    ELSE IF a = b THEN ParseHeaderLine(lines, a, st)
    ELSE LET m    == (a + b) \div 2
             half == ParseHeaderLines(lines, a, m, st)
         IN  IF half.msg.payload # <<>> THEN half
             ELSE ParseHeaderLines(lines, m + 1, b, half)

\* The lines a..b, and the lines from i on, one after the other.
RECURSIVE JoinRange(_, _, _)
JoinRange(lines, a, b) ==
    IF a > b THEN <<>>
    ELSE IF a = b THEN lines[a]
    ELSE LET m == (a + b) \div 2
         IN  JoinRange(lines, a, m) \o JoinRange(lines, m + 1, b)

Join(lines, i) == JoinRange(lines, i, Len(lines))

\* FeedParser._parsegen with headersonly: collect the header lines, parse
\* them, and keep the rest as the payload.  A line that ends the headers
\* without being blank is a defect and stays in the payload.
parse(buf) ==
    LET lines == splitlines(buf)
        other == {i \in 1..Len(lines) : ~IsHeaderLine(lines[i])}
        stop  == IF other = {} THEN Len(lines) + 1 ELSE Min(other)
        blank == stop <= Len(lines) /\ IsBlankLine(lines[stop])
        empty == [raw_items |-> <<>>, defects |-> <<>>, payload |-> <<>>]
        start == IF stop <= Len(lines) /\ ~blank
                 THEN Defect(empty, "MissingHeaderBodySeparatorDefect")
                 ELSE empty
        heads == Slice(lines, 1, stop - 1)
        ended == ParseHeaderLines(heads, 1, Len(heads), [last |-> <<>>, msg |-> start])
        msg   == Flush(ended.last, ended.msg)
        body  == Join(lines, IF blank THEN stop + 1 ELSE stop)
    IN  [msg EXCEPT !.payload = @ \o body]

\* Message.items() of the message read_message returns (Compat32
\* header_fetch_parse): the names with the values presented.  A value is
\* handed out as the str it is stored as, unless it holds a surrogate: then
\* as an email.header.Header of charset unknown-8bit over the stored string,
\* whose str() shows each surrogate as U+FFFD.  An entry is the name and a
\* record of the class of the value, the string it holds and its str().
Surrogates == 55296..57343
has_surrogates(s) == \E i \in 1..Len(s) : s[i] \in Surrogates
HeaderStr(s) == [i \in 1..Len(s) |-> IF s[i] \in Surrogates THEN 65533 ELSE s[i]]
header_fetch_parse(value) ==
    IF has_surrogates(value)
    THEN [class |-> "Header", charset |-> "unknown-8bit", string |-> value,
          str |-> HeaderStr(value)]
    ELSE [class |-> "str", charset |-> "", string |-> value, str |-> value]
items(msg) ==
    [i \in 1..Len(msg.raw_items) |->
        <<msg.raw_items[i][1], header_fetch_parse(msg.raw_items[i][2])>>]

(***************************************************************************)
(* read_request (lines 26-31) and read_response (lines 43-46), applied to  *)
(* what read_message returned.  An exception of read_message passes        *)
(* through both unchanged (yield from).                                    *)
(***************************************************************************)
\* Lines 27-30 with the two tests in the other order.
read_request_version_first(request_line, headers) ==
    LET text == decode(Slice(request_line, 1, Len(request_line) - 2))
        fields == split(text.value)
    IN  IF text.error # NoError THEN Raise(text.error)
        ELSE IF Len(fields) < 3 THEN Raise(NotEnoughValues)
        ELSE IF fields[3] # HTTP11 THEN Raise(UnsupportedVersion)
        ELSE IF fields[1] # GET THEN Raise(UnsupportedMethod)
        ELSE Return(<<fields[2], headers>>)

read_request(request_line, headers) ==
    LET text == decode(Slice(request_line, 1, Len(request_line) - 2))
        fields == split(text.value)
    IN  IF text.error # NoError THEN Raise(text.error)
        ELSE IF Len(fields) < 3 THEN Raise(NotEnoughValues)
        ELSE IF fields[1] # GET THEN Raise(UnsupportedMethod)
        ELSE IF fields[3] # HTTP11 THEN Raise(UnsupportedVersion)
        ELSE Return(<<fields[2], headers>>)

\* Lines 44-46 with the status converted before the version is tested.
read_response_status_first(status_line, headers) ==
    LET text == decode(Slice(status_line, 1, Len(status_line) - 2))
        fields == split(text.value)
        status == int(fields[2])
    IN  IF text.error # NoError THEN Raise(text.error)
        ELSE IF Len(fields) < 3 THEN Raise(NotEnoughValues)
        ELSE IF status.error # NoError THEN Raise(status.error)
        ELSE IF fields[1] # HTTP11 THEN Raise(UnsupportedVersion)
        ELSE Return(<<status.value, headers>>)

\* Line 46 refusing a status outside 100..599.
read_response_status_range(status_line, headers) ==
    LET text == decode(Slice(status_line, 1, Len(status_line) - 2))
        fields == split(text.value)
        status == int(fields[2])
    IN  IF text.error # NoError THEN Raise(text.error)
        ELSE IF Len(fields) < 3 THEN Raise(NotEnoughValues)
        ELSE IF fields[1] # HTTP11 THEN Raise(UnsupportedVersion)
        ELSE IF status.error # NoError THEN Raise(status.error)
        ELSE IF status.value \notin 100..599 THEN Raise(InvalidStatus)
        ELSE Return(<<status.value, headers>>)

read_response(status_line, headers) ==
    LET text == decode(Slice(status_line, 1, Len(status_line) - 2))
        fields == split(text.value)
        status == int(fields[2])
    IN  IF text.error # NoError THEN Raise(text.error)
        ELSE IF Len(fields) < 3 THEN Raise(NotEnoughValues)
        ELSE IF fields[1] # HTTP11 THEN Raise(UnsupportedVersion)
        ELSE IF status.error # NoError THEN Raise(status.error)
        ELSE Return(<<status.value, headers>>)

\* Lines 66-68, and what the caller of read_message does with the result.
Finish(r, line, buf) ==
    LET headers == parse(buf)
    IN  CASE r = "read_message" -> Return(<<line, headers>>)
          [] r = "read_request" -> read_request(line, headers)
          [] r = "read_response" -> read_response(line, headers)

(***************************************************************************)
(* The streams of the model.                                               *)
(***************************************************************************)
MaxShort == 2     \* the longest header block of the short streams
Margin == 1       \* how far the long streams and lines go past the limits

RequestLine ==
    \* b'GET /chat HTTP/1.1\r\n'
    <<71, 69, 84, 32, 47, 99, 104, 97, 116, 32, 72, 84, 84, 80, 47, 49, 46, 49, 13, 10>>

RequestLineQuery ==
    \* b'GET /chat?q=%20a%2Fb HTTP/1.1\r\n'
    <<71, 69, 84, 32, 47, 99, 104, 97, 116, 63, 113, 61, 37, 50, 48, 97, 37, 50, 70, 98, 32, 72, 84, 84, 80, 47, 49, 46, 49, 13, 10>>

RequestLineTabs ==
    \* b'GET\t/chat  HTTP/1.1\r\n'
    <<71, 69, 84, 9, 47, 99, 104, 97, 116, 32, 32, 72, 84, 84, 80, 47, 49, 46, 49, 13, 10>>

RequestLineUtf8 ==
    \* b'GET /caf\xc3\xa9 HTTP/1.1\r\n'
    <<71, 69, 84, 32, 47, 99, 97, 102, 195, 169, 32, 72, 84, 84, 80, 47, 49, 46, 49, 13, 10>>

RequestLineNotUtf8 ==
    \* b'GET /caf\xe9 HTTP/1.1\r\n'
    <<71, 69, 84, 32, 47, 99, 97, 102, 233, 32, 72, 84, 84, 80, 47, 49, 46, 49, 13, 10>>

RequestLinePostNotUtf8 ==
    \* b'POST /caf\xe9 HTTP/1.0\r\n'
    <<80, 79, 83, 84, 32, 47, 99, 97, 102, 233, 32, 72, 84, 84, 80, 47, 49, 46, 48, 13, 10>>

RequestLinePost ==
    \* b'POST /chat HTTP/1.1\r\n'
    <<80, 79, 83, 84, 32, 47, 99, 104, 97, 116, 32, 72, 84, 84, 80, 47, 49, 46, 49, 13, 10>>

RequestLineLower ==
    \* b'get /chat HTTP/1.1\r\n'
    <<103, 101, 116, 32, 47, 99, 104, 97, 116, 32, 72, 84, 84, 80, 47, 49, 46, 49, 13, 10>>

RequestLineHttp10 ==
    \* b'GET /chat HTTP/1.0\r\n'
    <<71, 69, 84, 32, 47, 99, 104, 97, 116, 32, 72, 84, 84, 80, 47, 49, 46, 48, 13, 10>>

RequestLinePostHttp10 ==
    \* b'POST /chat HTTP/1.0\r\n'
    <<80, 79, 83, 84, 32, 47, 99, 104, 97, 116, 32, 72, 84, 84, 80, 47, 49, 46, 48, 13, 10>>

RequestLineSpaceInTarget ==
    \* b'GET /a b HTTP/1.1\r\n'
    <<71, 69, 84, 32, 47, 97, 32, 98, 32, 72, 84, 84, 80, 47, 49, 46, 49, 13, 10>>

RequestLineTrailingSpace ==
    \* b'GET /chat HTTP/1.1 \r\n'
    <<71, 69, 84, 32, 47, 99, 104, 97, 116, 32, 72, 84, 84, 80, 47, 49, 46, 49, 32, 13, 10>>

RequestLineNoVersion ==
    \* b'GET /chat\r\n'
    <<71, 69, 84, 32, 47, 99, 104, 97, 116, 13, 10>>

RequestLinePostOnly ==
    \* b'POST\r\n'
    <<80, 79, 83, 84, 13, 10>>

EmptyStartLine ==
    \* b'\r\n'
    <<13, 10>>

RequestLineBareLF ==
    \* b'GET /chat HTTP/1.1\n'
    <<71, 69, 84, 32, 47, 99, 104, 97, 116, 32, 72, 84, 84, 80, 47, 49, 46, 49, 10>>

RequestLineCut ==
    \* b'GET /chat HT'
    <<71, 69, 84, 32, 47, 99, 104, 97, 116, 32, 72, 84>>

StatusLine ==
    \* b'HTTP/1.1 101 Switching Protocols\r\n'
    <<72, 84, 84, 80, 47, 49, 46, 49, 32, 49, 48, 49, 32, 83, 119, 105, 116, 99, 104, 105, 110, 103, 32, 80, 114, 111, 116, 111, 99, 111, 108, 115, 13, 10>>

StatusLineOK ==
    \* b'HTTP/1.1 200 OK\r\n'
    <<72, 84, 84, 80, 47, 49, 46, 49, 32, 50, 48, 48, 32, 79, 75, 13, 10>>

StatusLineHttp10 ==
    \* b'HTTP/1.0 200 OK\r\n'
    <<72, 84, 84, 80, 47, 49, 46, 48, 32, 50, 48, 48, 32, 79, 75, 13, 10>>

StatusLineNotNumeric ==
    \* b'HTTP/1.1 abc OK\r\n'
    <<72, 84, 84, 80, 47, 49, 46, 49, 32, 97, 98, 99, 32, 79, 75, 13, 10>>

StatusLineHttp10NotNumeric ==
    \* b'HTTP/1.0 abc OK\r\n'
    <<72, 84, 84, 80, 47, 49, 46, 48, 32, 97, 98, 99, 32, 79, 75, 13, 10>>

StatusLineDecimal ==
    \* b'HTTP/1.1 1.0 OK\r\n'
    <<72, 84, 84, 80, 47, 49, 46, 49, 32, 49, 46, 48, 32, 79, 75, 13, 10>>

StatusLineZero ==
    \* b'HTTP/1.1 0 OK\r\n'
    <<72, 84, 84, 80, 47, 49, 46, 49, 32, 48, 32, 79, 75, 13, 10>>

StatusLineNegative ==
    \* b'HTTP/1.1 -1 OK\r\n'
    <<72, 84, 84, 80, 47, 49, 46, 49, 32, 45, 49, 32, 79, 75, 13, 10>>

StatusLineHuge ==
    \* b'HTTP/1.1 99999 OK\r\n'
    <<72, 84, 84, 80, 47, 49, 46, 49, 32, 57, 57, 57, 57, 57, 32, 79, 75, 13, 10>>

StatusLineUnderscore ==
    \* b'HTTP/1.1 2_0_0 OK\r\n'
    <<72, 84, 84, 80, 47, 49, 46, 49, 32, 50, 95, 48, 95, 48, 32, 79, 75, 13, 10>>

StatusLineDevanagari ==
    \* b'HTTP/1.1 \xe0\xa5\xa7\xe0\xa5\xa6\xe0\xa5\xa7 OK\r\n' (the status is 101 in Devanagari digits)
    <<72, 84, 84, 80, 47, 49, 46, 49, 32, 224, 165, 167, 224, 165, 166, 224, 165, 167, 32, 79, 75, 13, 10>>

StatusLineHttp10NotUtf8 ==
    \* b'HTTP/1.0 abc caf\xe9\r\n'
    <<72, 84, 84, 80, 47, 49, 46, 48, 32, 97, 98, 99, 32, 99, 97, 102, 233, 13, 10>>

StatusLineNotNumericNotUtf8 ==
    \* b'HTTP/1.1 abc caf\xe9\r\n'
    <<72, 84, 84, 80, 47, 49, 46, 49, 32, 97, 98, 99, 32, 99, 97, 102, 233, 13, 10>>

StatusLineNoReason ==
    \* b'HTTP/1.1 200\r\n'
    <<72, 84, 84, 80, 47, 49, 46, 49, 32, 50, 48, 48, 13, 10>>

StatusLineEmptyReason ==
    \* b'HTTP/1.1 200 \r\n'
    <<72, 84, 84, 80, 47, 49, 46, 49, 32, 50, 48, 48, 32, 13, 10>>

StatusLineNotNumericNoReason ==
    \* b'HTTP/1.1 abc\r\n'
    <<72, 84, 84, 80, 47, 49, 46, 49, 32, 97, 98, 99, 13, 10>>

HeaderHost ==
    \* b'Host: x\r\n'
    <<72, 111, 115, 116, 58, 32, 120, 13, 10>>

HeaderUpgrade ==
    \* b'Upgrade: websocket\r\n'
    <<85, 112, 103, 114, 97, 100, 101, 58, 32, 119, 101, 98, 115, 111, 99, 107, 101, 116, 13, 10>>

HeaderHostLower ==
    \* b'host: y\r\n'
    <<104, 111, 115, 116, 58, 32, 121, 13, 10>>

HeaderSpaced ==
    \* b'X-Test:  spaced \r\n'
    <<88, 45, 84, 101, 115, 116, 58, 32, 32, 115, 112, 97, 99, 101, 100, 32, 13, 10>>

HeaderContinuation ==
    \* b' cont\r\n'
    <<32, 99, 111, 110, 116, 13, 10>>

HeaderNoColon ==
    \* b'nocolon\r\n'
    <<110, 111, 99, 111, 108, 111, 110, 13, 10>>

HeaderBlanks ==
    \* b' \t\r\n'
    <<32, 9, 13, 10>>

HeaderCRCRLF ==
    \* b'\r\r\n'
    <<13, 13, 10>>

HeaderBareLF ==
    \* b'Host: x\n'
    <<72, 111, 115, 116, 58, 32, 120, 10>>

HeaderBareLFOnly ==
    \* b'\n'
    <<10>>

HeaderLatin1 ==
    \* b'X: caf\xe9\r\n'
    <<88, 58, 32, 99, 97, 102, 233, 13, 10>>

HeaderCut ==
    \* b'Host'
    <<72, 111, 115, 116>>

\* n bytes of 'a'.
Filler(n) == [i \in 1..n |-> 97]

\* A request line and a header line of n bytes; cut, they lack the end of
\* the line (the stream ended, or the peer never sent CRLF).
LongRequestLine(n, cut) ==
    LET head == <<71, 69, 84, 32, 47>>                       \* 'GET /'
        tail == <<32, 72, 84, 84, 80, 47, 49, 46, 49, 13, 10>>  \* ' HTTP/1.1\r\n'
    IN  IF cut THEN head \o Filler(n - Len(head))
        ELSE head \o Filler(n - Len(head) - Len(tail)) \o tail

LongHeaderLine(n, cut) ==
    LET head == <<88, 58, 32>>                               \* 'X: '
    IN  IF cut THEN head \o Filler(n - Len(head))
        ELSE head \o Filler(n - Len(head) - 2) \o CRLF

StartLines ==
    {RequestLine, RequestLineQuery, RequestLineTabs, RequestLineUtf8,
     RequestLineNotUtf8, RequestLinePostNotUtf8, RequestLinePost, RequestLineLower, RequestLineHttp10,
     RequestLinePostHttp10, RequestLineSpaceInTarget, RequestLineTrailingSpace,
     RequestLineNoVersion, RequestLinePostOnly, EmptyStartLine,
     RequestLineBareLF, RequestLineCut,
     StatusLine, StatusLineOK, StatusLineHttp10, StatusLineNotNumeric,
     StatusLineHttp10NotNumeric, StatusLineDecimal, StatusLineZero,
     StatusLineNegative, StatusLineHuge, StatusLineUnderscore,
     StatusLineDevanagari, StatusLineHttp10NotUtf8, StatusLineNotNumericNotUtf8,
     StatusLineNoReason, StatusLineEmptyReason, StatusLineNotNumericNoReason}

GoodHeaders == {HeaderHost, HeaderUpgrade}

HeaderLines ==
    {HeaderHost, HeaderUpgrade, HeaderHostLower, HeaderSpaced,
     HeaderContinuation, HeaderNoColon, HeaderBlanks, HeaderCRCRLF,
     HeaderBareLF, HeaderBareLFOnly, HeaderLatin1, HeaderCut}

\* The sequences of at most n elements of S.
SeqUpTo(S, n) == UNION {[1..k -> S] : k \in 0..n}

\* What follows the header block: nothing (the stream ended), the blank
\* line, or the blank line and the first line of what the peer sends next.
Tails == {<<>>, <<CRLF>>, <<CRLF, RequestLine>>}

ShortStreams ==
    {<<sl>> \o hs \o tl : sl \in StartLines, hs \in SeqUpTo(GoodHeaders, MaxShort),
                          tl \in Tails}

HeaderStreams ==
    {<<sl>> \o hs \o tl : sl \in {RequestLine, StatusLine},
                          hs \in SeqUpTo(HeaderLines, MaxShort), tl \in Tails}

\* Header blocks around MAX_HEADERS lines.
ManyStreams ==
    {<<sl>> \o [i \in 1..n |-> HeaderHost] \o tl :
        sl \in {RequestLine, StatusLine, RequestLinePost},
        n \in (MAX_HEADERS - Margin)..(MAX_HEADERS + Margin), tl \in Tails}

\* Lines around MAX_LINE bytes, as the start line and as a header line.
LongStreams ==
    UNION {{<<LongRequestLine(n, cut), HeaderHost, CRLF>>,
            <<RequestLine, LongHeaderLine(n, cut), CRLF>>} :
        n \in (MAX_LINE - Margin)..(MAX_LINE + Margin), cut \in BOOLEAN}

Streams == ShortStreams \cup HeaderStreams \cup ManyStreams \cup LongStreams

Readers == {"read_message", "read_request", "read_response"}

(***************************************************************************)
(* The state machine.  A step runs the coroutine from one suspension point *)
(* (a stream.readline() that returns) to the next, or to its end.          *)
(***************************************************************************)
\* stream.readline(): the next line, or b'' at the end of the input.
readline(s, p) == IF p < Len(s) THEN s[p + 1] ELSE <<>>

Pending == [error |-> NoError, value |-> <<>>]

\* A coroutine r called on the stream s, before it has run: its stream, its
\* position and its locals.
StartOf(s, r) ==
    [stream |-> s, reader |-> r, pos |-> 0, pc |-> "start_line", num |-> 0,
     start_line |-> <<>>, header_lines |-> <<>>, outcome |-> Pending]

\* No second coroutine runs.
NoPeer == [StartOf(<<>>, "none") EXCEPT !.pc = "absent"]

Init ==
    /\ stream \in Streams
    /\ reader \in Readers
    /\ pos = 0
    /\ pc = "start_line"
    /\ num = 0
    /\ start_line = <<>>
    /\ header_lines = <<>>
    /\ outcome = Pending
    /\ peer = NoPeer

\* A failure after the start line hands back what was read so far.
Done_partial(result) ==
    IF result.error # NoError /\ start_line # <<>>
    THEN /\ pc' = "returned"
         /\ outcome' = Return(<<start_line, parse(header_lines)>>)
    ELSE /\ pc' = IF result.error = NoError THEN "returned" ELSE "raised"
         /\ outcome' = result

Done(result) ==
    /\ pc' = IF result.error = NoError THEN "returned" ELSE "raised"
    /\ outcome' = result

\* Lines 26-30 and 43-46 run as soon as the start line is read.
read_start_line_validated ==
    /\ pc = "start_line"
    /\ LET line == read_line(readline(stream, pos))
           early == Finish(reader, line.value, <<>>)
       IN  /\ pos' = pos + 1
           /\ IF line.error # NoError
              THEN /\ Done(line)
                   /\ UNCHANGED <<start_line>>
              ELSE IF early.error # NoError
              THEN /\ Done(early)
                   /\ start_line' = line.value
              ELSE /\ start_line' = line.value
                   /\ pc' = "header_line"
                   /\ UNCHANGED outcome
    /\ UNCHANGED <<stream, reader, num, header_lines, peer>>

\* Line 57.
read_start_line ==
    /\ pc = "start_line"
    /\ LET line == read_line(readline(stream, pos))
       IN  /\ pos' = pos + 1
           /\ IF line.error # NoError
              THEN /\ Done(line)
                   /\ UNCHANGED <<start_line>>
              ELSE /\ start_line' = line.value
                   /\ pc' = "header_line"
                   /\ UNCHANGED outcome
    /\ UNCHANGED <<stream, reader, num, header_lines, peer>>

\* Line 62 testing the stripped line.
IsTerminatorStripped(line) ==
    /\ EndsWith(line, CRLF)
    /\ \A i \in 1..Len(line) : line[i] \in {9, 10, 11, 12, 13, 32}

\* Line 62 taking a line of blanks and tabs for the blank line.
IsTerminatorBlanks(line) ==
    /\ EndsWith(line, CRLF)
    /\ \A i \in 1..(Len(line) - 2) : line[i] \in {9, 32}

\* Line 62: the line that ends the header block.
IsTerminator(line) == line = CRLF

\* Lines 59-68 with a loop that does not count its turns.
read_header_line_unbounded ==
    /\ pc = "header_line"
    /\ LET line == read_line(readline(stream, pos))
       IN  /\ pos' = pos + 1
           /\ IF line.error # NoError
              THEN /\ Done(line)
                   /\ UNCHANGED <<num, header_lines>>
              ELSE /\ header_lines' = header_lines \o line.value
                   /\ IF line.value = CRLF
                      THEN /\ Done(Finish(reader, start_line, header_lines'))
                           /\ UNCHANGED num
                      ELSE /\ num' = num + 1
                           /\ UNCHANGED <<pc, outcome>>
    /\ UNCHANGED <<stream, reader, start_line, peer>>

\* Lines 59-68: one turn of the loop, and what follows the loop when this
\* turn leaves it.
read_header_line ==
    /\ pc = "header_line"
    /\ LET line == read_line(readline(stream, pos))
       IN  /\ pos' = pos + 1
           /\ IF line.error # NoError
              THEN /\ Done(line)
                   /\ UNCHANGED <<num, header_lines>>
              ELSE /\ header_lines' = header_lines \o line.value
                   /\ IF IsTerminator(line.value)
                      THEN /\ Done(Finish(reader, start_line, header_lines'))
                           /\ UNCHANGED num
                      ELSE IF num + 1 < MAX_HEADERS
                      THEN /\ num' = num + 1
                           /\ UNCHANGED <<pc, outcome>>
                      ELSE /\ Done(Raise(TooManyHeaders))
                           /\ UNCHANGED num
    /\ UNCHANGED <<stream, reader, start_line, peer>>

Next == read_start_line \/ read_header_line

Spec == Init /\ [][Next]_vars

(***************************************************************************)
(* Cancellation.  While the coroutine is suspended in stream.readline()    *)
(* (line 76, reached from lines 57 and 60), the event loop may throw       *)
(* CancelledError into it.  No line of the module catches an exception, so *)
(* it leaves read_line, read_message and the reader through `yield from`:  *)
(* the coroutine is over, with no return value and none of its own errors. *)
(***************************************************************************)
\* CancelledError caught around the line read and reported as the end of
\* the stream.
cancel_as_error ==
    /\ pc \in {"start_line", "header_line"}
    /\ Done(Raise(MissingTerminator))
    /\ UNCHANGED <<stream, pos, reader, num, start_line, header_lines, peer>>

cancel ==
    /\ pc \in {"start_line", "header_line"}
    /\ pc' = "cancelled"
    /\ UNCHANGED <<stream, pos, reader, num, start_line, header_lines, outcome, peer>>

NextCancel == read_start_line \/ read_header_line \/ cancel

SpecCancel == Init /\ [][NextCancel]_vars

(***************************************************************************)
(* Two coroutines, each on a stream of its own.  The event loop resumes    *)
(* one of them at a time, the one whose stream.readline() has returned,    *)
(* and runs it to its next suspension point or to its end.  The locals of  *)
(* a coroutine (lines 57-60) live in its frame: the second coroutine is    *)
(* the record of its stream, its position and its locals.                  *)
(***************************************************************************)
\* One resumption of the coroutine st: line 57 when it stands at the start
\* line, one turn of the loop of lines 59-65, and lines 66-68 with what
\* its caller does when this turn leaves the loop, when it stands there.
resume(st) ==
    LET line == read_line(readline(st.stream, st.pos))
        read == [st EXCEPT !.pos = @ + 1]
        done(result) ==
            [read EXCEPT !.pc = IF result.error = NoError THEN "returned" ELSE "raised",
                         !.outcome = result]
        buf == st.header_lines \o line.value
    IN  IF line.error # NoError THEN done(line)
        ELSE IF st.pc = "start_line"
        THEN [read EXCEPT !.start_line = line.value, !.pc = "header_line"]
        ELSE IF IsTerminator(line.value)
        THEN [done(Finish(st.reader, st.start_line, buf)) EXCEPT !.header_lines = buf]
        ELSE IF st.num + 1 < MAX_HEADERS
        THEN [read EXCEPT !.header_lines = buf, !.num = @ + 1]
        ELSE [done(Raise(TooManyHeaders)) EXCEPT !.header_lines = buf]

Suspended(st) == st.pc \in {"start_line", "header_line"}

\* The io.BytesIO of line 58 as one buffer of the module, that every
\* coroutine writes to and parses.
peer_resume_shared_buffer ==
    /\ Suspended(peer)
    /\ peer' = resume([peer EXCEPT !.header_lines = header_lines])
    /\ header_lines' = peer'.header_lines
    /\ UNCHANGED <<stream, pos, reader, pc, num, start_line, outcome>>

\* The loop variable of line 59 as one counter of the module.
peer_resume_shared_count ==
    /\ Suspended(peer)
    /\ peer' = resume([peer EXCEPT !.num = num])
    /\ num' = peer'.num
    /\ UNCHANGED <<stream, pos, reader, pc, start_line, header_lines, outcome>>

\* The event loop resumes the second coroutine.
peer_resume ==
    /\ Suspended(peer)
    /\ peer' = resume(peer)
    /\ UNCHANGED <<stream, pos, reader, pc, num, start_line, header_lines, outcome>>

MaxPair == 1      \* the longest header block of the short streams of a pair

PairStreams ==
    {<<sl>> \o hs \o tl : sl \in {RequestLine, StatusLine},
                          hs \in SeqUpTo({HeaderHost, HeaderBareLF}, MaxPair),
                          tl \in {<<>>, <<CRLF>>}}

\* A start line, n times 'Host: x' and the blank line.
ManyHeaders(n) == <<RequestLine>> \o [i \in 1..n |-> HeaderHost] \o <<CRLF>>

\* A call is a stream and the coroutine called on it.  The short calls run
\* in pairs of all kinds; a call around MAX_HEADERS header lines runs next
\* to a short one, and a call with a line around MAX_LINE bytes next to a
\* short one and next to a call on a second stream of the same bytes.
ShortCalls == PairStreams \X Readers
ManyCalls ==
    {<<ManyHeaders(n), "read_message">> : n \in {MAX_HEADERS - 1, MAX_HEADERS}}
LongCalls ==
    {<<<<RequestLine, LongHeaderLine(n, FALSE), CRLF>>, "read_request">> :
        n \in {MAX_LINE, MAX_LINE + 1}}
OneShortCall == <<<<RequestLine, HeaderHost, CRLF>>, "read_request">>
Pairs ==
    (ShortCalls \X ShortCalls)
        \cup ((ManyCalls \cup LongCalls) \X {OneShortCall})
        \cup ({OneShortCall} \X (ManyCalls \cup LongCalls))
        \cup {<<c, c>> : c \in LongCalls}

InitPair ==
    \E c \in Pairs :
        /\ stream = c[1][1]
        /\ reader = c[1][2]
        /\ peer = StartOf(c[2][1], c[2][2])
        /\ pos = 0
        /\ pc = "start_line"
        /\ num = 0
        /\ start_line = <<>>
        /\ header_lines = <<>>
        /\ outcome = Pending

NextPair == read_start_line \/ read_header_line \/ peer_resume

SpecPair == InitPair /\ [][NextPair]_vars

(***************************************************************************)
(* What the claims speak of.                                               *)
(***************************************************************************)
Terminated == pc \in {"returned", "raised"}

\* The line the last stream.readline() returned.
LastLine == readline(stream, pos - 1)

\* A line as section 3 of the specification defines it.
WellFormedLine(l) == Len(l) <= MAX_LINE /\ EndsWith(l, CRLF)

\* The stream holds a start line, header lines and the blank line, every
\* one of them a well-formed line; BlankAt is where the blank line stands
\* and HeaderCount the number of header lines before it.
Blanks(s) == {i \in 2..Len(s) : s[i] = CRLF}
Framed(s) ==
    /\ Blanks(s) # {}
    /\ \A i \in 1..Min(Blanks(s)) : WellFormedLine(s[i])
BlankAt(s) == Min(Blanks(s))
HeaderCount(s) == BlankAt(s) - 2

\* 'Name: value\r\n' with a name of visible characters.
IsNameValue(l) ==
    LET c == FirstIn(l, 1, {58})
    IN  /\ 1 < c /\ c <= Len(l)
        /\ \A i \in 1..(c - 1) : l[i] \in (33..57) \cup (59..126)

\* A header block the specification calls valid: framed, of at most
\* MAX_HEADERS header lines, each with its name/value separator.
ValidHeaderBlock(s) ==
    /\ Framed(s)
    /\ HeaderCount(s) <= MAX_HEADERS
    /\ \A i \in 2..(BlankAt(s) - 1) : IsNameValue(s[i])

\* read_message has returned to its caller: the loop was left at line 63.
MessageRead == Terminated /\ pos >= 2 /\ LastLine = CRLF

(***************************************************************************)
(* The claims.                                                             *)
(***************************************************************************)

\* C1: a framed message is refused with TooManyHeaders if and only if more
\* than MAX_HEADERS header lines precede the blank line; with MAX_HEADERS
\* header lines or fewer, read_message returns.
C1_TooManyHeadersIffOverLimit ==
    (Terminated /\ Framed(stream)) =>
        IF HeaderCount(stream) <= MAX_HEADERS
        THEN /\ outcome.error # TooManyHeaders
             /\ reader = "read_message" => pc = "returned"
        ELSE outcome.error = TooManyHeaders

\* C1, what the code does: the blank line counts as one of the MAX_HEADERS
\* lines of the loop, so MAX_HEADERS header lines are already too many.
C1_CodeLimit ==
    (Terminated /\ Framed(stream)) =>
        (outcome.error = TooManyHeaders <=> HeaderCount(stream) >= MAX_HEADERS)

\* The line just read has reached the caller of read_line.
Received(l) ==
    /\ outcome.error \notin {LineTooLong, MissingTerminator}
    /\ IF pos = 1 THEN start_line = l ELSE EndsWith(header_lines, l)

\* C2: a CRLF-terminated line of at most MAX_LINE bytes, terminator
\* included, is returned by read_line; a line of more than MAX_LINE bytes
\* fails with LineTooLong, and no such line is ever returned.
C2_LineLimit ==
    pos >= 1 =>
        /\ Len(LastLine) > MAX_LINE => pc = "raised" /\ outcome.error = LineTooLong
        /\ WellFormedLine(LastLine) => Received(LastLine)
        /\ Len(start_line) <= MAX_LINE

C2_Witness == pos = 1 /\ pc = "header_line" /\ Len(start_line) = MAX_LINE

\* C3: a read makes at most 1 + MAX_HEADERS line reads; it has ended when
\* it has made that many, and when the stream ended or returned a line
\* without its terminator; every step is one line read of a read that has
\* not ended, so a read that has ended reads no further.
C3_BoundedReads ==
    /\ [](/\ pos <= 1 + MAX_HEADERS
          /\ pos = 1 + MAX_HEADERS => Terminated
          /\ (pos >= 1 /\ ~EndsWith(LastLine, CRLF)) => Terminated)
    /\ [][~Terminated /\ pos' = pos + 1]_vars

C3_Witness ==
    pc = "raised" /\ outcome.error = TooManyHeaders /\ pos = 1 + MAX_HEADERS

\* C4: a line that does not end with CRLF and is not longer than MAX_LINE
\* fails with MissingTerminator and reaches nobody; a line that read_line
\* returns keeps its CRLF.
C4_MissingTerminator ==
    /\ (pos >= 1 /\ Len(LastLine) <= MAX_LINE /\ ~EndsWith(LastLine, CRLF)) =>
          /\ pc = "raised"
          /\ outcome.error = MissingTerminator
          /\ outcome.value = <<>>
          /\ pos = 1 => start_line = <<>>
    /\ start_line # <<>> => start_line = stream[1] /\ EndsWith(start_line, CRLF)
    /\ header_lines # <<>> => EndsWith(header_lines, CRLF)
    /\ (pos > 1 /\ WellFormedLine(LastLine)) => EndsWith(header_lines, LastLine)

\* A bare-LF header line was refused.
C4_Witness ==
    /\ pc = "raised" /\ outcome.error = MissingTerminator
    /\ pos > 1 /\ LastLine # <<>> /\ LastLine[Len(LastLine)] = 10

\* C5: a read that returns has consumed the start line, the header lines
\* and the blank line, n + 2 lines for n header lines, and nothing of what
\* follows the blank line.
C5_LinesConsumed ==
    pc = "returned" =>
        /\ Blanks(stream) # {}
        /\ pos = HeaderCount(stream) + 2

\* A message of two header lines was returned and what follows it is unread.
C5_Witness ==
    /\ pc = "returned" /\ reader = "read_request"
    /\ HeaderCount(stream) = 2 /\ pos < Len(stream)

\* The fields of the start line of the stream: of its text when it is
\* UTF-8, of its bytes otherwise.  Field(k) is <<>> when there is no k-th.
StartLineBody == Slice(stream[1], 1, Len(stream[1]) - 2)
StartLineDecodes == decode(StartLineBody).error = NoError
Fields ==
    split(IF StartLineDecodes THEN decode(StartLineBody).value ELSE StartLineBody)
Field(k) == IF Len(Fields) >= k THEN Fields[k] ELSE <<>>
ThreeFields == StartLineDecodes /\ Len(Fields) = 3

SpaceHTTP11CRLF == <<32>> \o HTTP11 \o CRLF
GETSpace == GET \o <<32>>
HTTP11Space == HTTP11 \o <<32>>

\* 'GET <target> HTTP/1.1\r\n' with a target of visible ASCII characters.
Target(l) == Slice(l, Len(GETSpace) + 1, Len(l) - Len(SpaceHTTP11CRLF))
ValidRequestLine(l) ==
    /\ WellFormedLine(l)
    /\ StartsWith(l, GETSpace) /\ EndsWith(l, SpaceHTTP11CRLF)
    /\ Target(l) # <<>>
    /\ \A i \in 1..Len(Target(l)) : Target(l)[i] \in 33..126

\* The name of a header line: what stands before its first colon.
NameOf(l) == Slice(l, 1, FirstIn(l, 1, {58}) - 1)

\* The headers returned are those of the header lines of the stream, one
\* entry a line, in their order and with their names as written.
HeadersAsSent(headers) ==
    LET entries == items(headers)
    IN  /\ Len(entries) = HeaderCount(stream)
        /\ \A i \in 1..HeaderCount(stream) : entries[i][1] = NameOf(stream[i + 1])

\* C6: on every valid request stream, 'GET <target> HTTP/1.1\r\n', header
\* lines within the limits and the blank line, read_request returns the
\* target as it was sent and the headers.
C6_ValidRequestAccepted ==
    (/\ reader = "read_request" /\ Terminated
     /\ ValidRequestLine(stream[1]) /\ ValidHeaderBlock(stream)) =>
        /\ pc = "returned"
        /\ outcome.value[1] = Target(stream[1])
        /\ HeadersAsSent(outcome.value[2])

\* C6, what the code does: the same with fewer than MAX_HEADERS header lines.
C6_BelowCodeLimit ==
    (/\ reader = "read_request" /\ Terminated
     /\ ValidRequestLine(stream[1]) /\ ValidHeaderBlock(stream)
     /\ HeaderCount(stream) < MAX_HEADERS) =>
        /\ pc = "returned"
        /\ outcome.value[1] = Target(stream[1])
        /\ HeadersAsSent(outcome.value[2])

\* What the claims C7 and C9 say of the method and the version.
RequestRefusals ==
    /\ Field(1) # GET => pc = "raised" /\ outcome.error = UnsupportedMethod
    /\ (Field(1) = GET /\ Field(3) # HTTP11) =>
           pc = "raised" /\ outcome.error = UnsupportedVersion
    /\ pc = "returned" => Field(1) = GET /\ Field(3) = HTTP11

\* C7: read_request, once the message is read: a method that is not GET
\* fails with UnsupportedMethod, GET with a version that is not HTTP/1.1
\* fails with UnsupportedVersion, and no target is returned for either.
C7_RequestRefusals ==
    (reader = "read_request" /\ MessageRead) => RequestRefusals

\* The start line fails before its fields are tested: it is not UTF-8 and
\* the read fails with UnicodeDecodeError, or it is UTF-8 of fewer than
\* three fields and the read fails with the ValueError of the unpacking.
RefusedBeforeFields ==
    /\ ~StartLineDecodes => pc = "raised" /\ outcome.error = UnicodeDecodeError
    /\ (StartLineDecodes /\ Len(Fields) < 3) =>
           pc = "raised" /\ outcome.error = NotEnoughValues

\* C7 as amended: read_request, once the message is read, by the cases of
\* the request line.  Not UTF-8: UnicodeDecodeError, whatever the method
\* and the version.  UTF-8 of fewer than three fields: the ValueError of
\* the unpacking.  UTF-8 of three fields: a method that is not GET fails
\* with UnsupportedMethod, GET with a version that is not HTTP/1.1 fails
\* with UnsupportedVersion.  A target is returned only for a request line
\* that is UTF-8, of three fields, with GET and HTTP/1.1.
C7_RequestRefusalsOfThreeFields ==
    /\ (reader = "read_request" /\ MessageRead) => RefusedBeforeFields
    /\ (reader = "read_request" /\ MessageRead /\ ThreeFields) => RequestRefusals
    /\ (reader = "read_request" /\ pc = "returned") =>
           ThreeFields /\ Field(1) = GET /\ Field(3) = HTTP11

\* 'POST /chat HTTP/1.0' was refused for its method.
C7_Witness ==
    /\ reader = "read_request" /\ MessageRead /\ ThreeFields
    /\ Field(1) # GET /\ Field(3) # HTTP11
    /\ outcome.error = UnsupportedMethod

\* An integer literal: an optional sign, then decimal digits, where one
\* underscore may stand between two digits.
Numeric(s) ==
    LET d == IF s # <<>> /\ s[1] \in {43, 45} THEN Slice(s, 2, Len(s)) ELSE s
    IN  /\ d # <<>>
        /\ \A i \in 1..Len(d) :
              \/ IsDigit(d[i])
              \/ /\ d[i] = 95 /\ 1 < i /\ i < Len(d)
                 /\ IsDigit(d[i - 1]) /\ IsDigit(d[i + 1])

\* The integer a numeric field denotes.
RECURSIVE Horner(_, _, _)
Horner(s, i, acc) ==
    IF i > Len(s) THEN acc
    ELSE Horner(s, i + 1, IF IsDigit(s[i]) THEN 10 * acc + DigitValue(s[i]) ELSE acc)
Denotes(s) == IF s[1] = 45 THEN 0 - Horner(s, 1, 0) ELSE Horner(s, 1, 0)

\* 'HTTP/1.1 <status> <reason>\r\n' with a status of ASCII digits and a
\* reason of one or more words.
StatusEnd(l) == FirstIn(l, Len(HTTP11Space) + 1, Whitespace)
StatusOf(l) == Slice(l, Len(HTTP11Space) + 1, StatusEnd(l) - 1)
ValidStatusLine(l) ==
    /\ WellFormedLine(l)
    /\ StartsWith(l, HTTP11Space)
    /\ StatusOf(l) # <<>>
    /\ \A i \in 1..Len(StatusOf(l)) : StatusOf(l)[i] \in 48..57
    /\ StatusEnd(l) + 1 <= Len(l) - 2
    /\ l[StatusEnd(l)] = 32
    /\ l[StatusEnd(l) + 1] \in 33..126
    /\ \A i \in (StatusEnd(l) + 1)..(Len(l) - 2) : l[i] \in 32..126

\* C8: on every valid response stream, 'HTTP/1.1 <status> <reason>\r\n'
\* with a numeric status, header lines and the blank line, read_response
\* returns the status as an integer, whatever the words of the reason.
C8_ValidResponseAccepted ==
    (/\ reader = "read_response" /\ Terminated
     /\ ValidStatusLine(stream[1]) /\ ValidHeaderBlock(stream)) =>
        /\ pc = "returned"
        /\ outcome.value[1] = Denotes(StatusOf(stream[1]))
        /\ HeadersAsSent(outcome.value[2])

\* C8, what the code does: the same with fewer than MAX_HEADERS header lines.
C8_BelowCodeLimit ==
    (/\ reader = "read_response" /\ Terminated
     /\ ValidStatusLine(stream[1]) /\ ValidHeaderBlock(stream)
     /\ HeaderCount(stream) < MAX_HEADERS) =>
        /\ pc = "returned"
        /\ outcome.value[1] = Denotes(StatusOf(stream[1]))
        /\ HeadersAsSent(outcome.value[2])

ResponseRefusals ==
    /\ Field(1) # HTTP11 => pc = "raised" /\ outcome.error = UnsupportedVersion
    /\ (Field(1) = HTTP11 /\ ~Numeric(Field(2))) =>
           pc = "raised" /\ outcome.error = InvalidStatus

\* C9: read_response, once the message is read: a version that is not
\* HTTP/1.1 fails with UnsupportedVersion, HTTP/1.1 with a status that is
\* not numeric fails with InvalidStatus, and no status is returned.
C9_ResponseRefusals ==
    (reader = "read_response" /\ MessageRead) => ResponseRefusals

\* C9 as amended: read_response, once the message is read, by the cases of
\* the status line.  Not UTF-8: UnicodeDecodeError, whatever the version
\* and the status.  UTF-8 of fewer than three fields: the ValueError of the
\* unpacking.  UTF-8 of three fields: a version that is not HTTP/1.1 fails
\* with UnsupportedVersion, HTTP/1.1 with a status that is not numeric
\* fails with InvalidStatus.  A status is returned only for a status line
\* that is UTF-8, of three fields, with HTTP/1.1 and a numeric status.
C9_ResponseRefusalsOfThreeFields ==
    /\ (reader = "read_response" /\ MessageRead) => RefusedBeforeFields
    /\ (reader = "read_response" /\ MessageRead /\ ThreeFields) => ResponseRefusals
    /\ (reader = "read_response" /\ pc = "returned") =>
           ThreeFields /\ Field(1) = HTTP11 /\ Numeric(Field(2))

\* 'HTTP/1.0 abc OK' was refused for its version.
C9_Witness ==
    /\ reader = "read_response" /\ MessageRead /\ ThreeFields
    /\ Field(1) # HTTP11 /\ ~Numeric(Field(2))
    /\ outcome.error = UnsupportedVersion

\* C10: a status that read_response returns lies in 100..599.
C10_StatusInRange ==
    (reader = "read_response" /\ pc = "returned") => outcome.value[1] \in 100..599

\* C10 as amended: the status returned is the integer the status field
\* denotes, whatever its size and sign; a numeric status after HTTP/1.1 is
\* never refused.
C10_StatusAsSent ==
    /\ (reader = "read_response" /\ pc = "returned") =>
           outcome.value[1] = Denotes(Field(2))
    /\ (/\ reader = "read_response" /\ MessageRead /\ ThreeFields
        /\ Field(1) = HTTP11 /\ Numeric(Field(2))) => pc = "returned"

\* A status outside 100..599 was returned.
C10_Witness ==
    /\ reader = "read_response" /\ pc = "returned"
    /\ outcome.value[1] \notin 100..599

\* The error the specification names for a header line without its
\* name/value separator; nothing in the code raises it.
MalformedHeader == "Malformed header"

HasColon(l) == FirstIn(l, 1, {58}) <= Len(l)

\* C11: when a header line read before the blank line holds no colon, the
\* read fails with MalformedHeader and returns no headers.
C11_MalformedHeaderRefused ==
    (MessageRead /\ \E i \in 2..(pos - 1) : ~HasColon(stream[i])) =>
        pc = "raised" /\ outcome.error = MalformedHeader

\* C11, what the code does: the parser refuses nothing, so read_message
\* returns whenever it has read the blank line; the headers it returns stop
\* before the first line that is no header line; unless that line starts
\* with a line end, it is kept, with all that follows it, as the payload,
\* under a defect.
C11_NothingRefused ==
    /\ outcome.error # MalformedHeader
    /\ (reader = "read_message" /\ MessageRead) => pc = "returned"
    /\ (reader = "read_message" /\ pc = "returned"
        /\ \E i \in 2..(pos - 1) :
               /\ ~IsHeaderLine(stream[i]) /\ ~IsBlankLine(stream[i])
               /\ \A j \in 2..(i - 1) : IsHeaderLine(stream[j])) =>
           /\ Len(outcome.value[2].raw_items) < HeaderCount(stream)
           /\ outcome.value[2].defects # <<>>
           /\ outcome.value[2].payload # <<>>

\* C12: read_message on a start line, n well-formed header lines within the
\* limit (0 <= n <= MAX_HEADERS) and the blank line returns the start line
\* and exactly n headers, one a line, in the order of the lines, repeated
\* names included; with n = 0 it returns no headers.
C12_HeadersKept ==
    (reader = "read_message" /\ Terminated /\ ValidHeaderBlock(stream)) =>
        /\ pc = "returned"
        /\ outcome.value[1] = stream[1]
        /\ HeadersAsSent(outcome.value[2])

\* C12, what the code does: the same with fewer than MAX_HEADERS header lines.
C12_BelowCodeLimit ==
    (/\ reader = "read_message" /\ Terminated /\ ValidHeaderBlock(stream)
     /\ HeaderCount(stream) < MAX_HEADERS) =>
        /\ pc = "returned"
        /\ outcome.value[1] = stream[1]
        /\ HeadersAsSent(outcome.value[2])
        /\ outcome.value[2].defects = <<>>
        /\ outcome.value[2].payload = <<>>

\* The start line fails the tests of read_request, of read_response.
RequestInvalid ==
    ~StartLineDecodes \/ Len(Fields) < 3 \/ Field(1) # GET \/ Field(3) # HTTP11
ResponseInvalid ==
    ~StartLineDecodes \/ Len(Fields) < 3 \/ Field(1) # HTTP11 \/ ~Numeric(Field(2))
StartLineInvalid ==
    \/ reader = "read_request" /\ RequestInvalid
    \/ reader = "read_response" /\ ResponseInvalid

\* C13: a read ends returned or raised and never both: a read that raised
\* holds an error and no value, one that returned a value and no error,
\* and before its end a read has produced neither; a line read that fails
\* and a start line that fails its tests end the read with an error at
\* once; every step either ends the read or moves it from the start line
\* to the header lines or from one header line to the next, and a read
\* that has ended takes no further step, so it reads no further line and
\* does not try again.
C13_FailFast ==
    /\ [](/\ pc \in {"start_line", "header_line", "returned", "raised"}
          /\ pc = "raised" => outcome.error # NoError /\ outcome.value = <<>>
          /\ pc = "returned" => outcome.error = NoError /\ outcome.value # <<>>
          /\ ~Terminated => outcome = Pending
          /\ (pos >= 1 /\ ~WellFormedLine(LastLine)) =>
                 /\ pc = "raised"
                 /\ outcome.error \in {LineTooLong, MissingTerminator}
          /\ (MessageRead /\ StartLineInvalid) => pc = "raised")
    /\ [][~Terminated /\ pc' # "start_line" /\ (pc' = pc => num' = num + 1)]_vars

\* A read failed at its third line: the start line and a header line were
\* read, and nothing of them is returned.
C13_Witness ==
    /\ pc = "raised" /\ pos = 3
    /\ start_line # <<>> /\ header_lines # <<>>
    /\ outcome.value = <<>>

\* The first coroutine as a record, like the second.
Self ==
    [stream |-> stream, reader |-> reader, pos |-> pos, pc |-> pc, num |-> num,
     start_line |-> start_line, header_lines |-> header_lines, outcome |-> outcome]

Ended(st) == st.pc \in {"returned", "raised"}

\* The lines stream[a..b] one after the other, as line 61 writes them.
RECURSIVE Written(_, _, _)
Written(s, a, b) ==
    IF a > b THEN <<>>
    ELSE IF a = b THEN s[a]
    ELSE LET m == (a + b) \div 2
         IN  Written(s, a, m) \o Written(s, m + 1, b)

\* A coroutine r run alone on the stream s, with no other coroutine at
\* work: it makes line reads up to the first that fails or, after the
\* start line, returns the blank line, and 1 + MAX_HEADERS of them at most;
\* it ends with the error of the line read that failed, with what lines
\* 66-68 and its caller make of the lines before the blank line, or with
\* TooManyHeaders.
AloneReads(s) ==
    LET stops == {k \in 1..(1 + MAX_HEADERS) :
                     \/ read_line(readline(s, k - 1)).error # NoError
                     \/ k >= 2 /\ s[k] = CRLF}
    IN  IF stops = {} THEN 1 + MAX_HEADERS ELSE Min(stops)

Alone(s, r) ==
    LET k == AloneReads(s)
        line == read_line(readline(s, k - 1))
    IN  [pos |-> k,
         outcome |-> IF line.error # NoError THEN line
                     ELSE IF k >= 2 /\ line.value = CRLF
                     THEN Finish(r, s[1], Written(s, 2, k))
                     ELSE Raise(TooManyHeaders)]

\* C14: the same coroutine called on two streams that hold the same bytes
\* ends the same way on both: the same result or the same error, after the
\* same number of line reads; and whenever the two have read the same
\* number of lines they stand at the same place with the same locals.
C14_Deterministic ==
    (peer.stream = stream /\ peer.reader = reader) =>
        /\ (Terminated /\ Ended(peer)) => outcome = peer.outcome /\ pos = peer.pos
        /\ pos = peer.pos => Self = peer

\* Both calls returned the same headers.
C14_Witness ==
    /\ peer.stream = stream /\ peer.reader = reader
    /\ pc = "returned" /\ peer.pc = "returned"
    /\ outcome.value[2].raw_items # <<>>
    /\ outcome = peer.outcome

\* C15: two coroutines on two streams, resumed in any order: each ends as
\* it ends when run alone, with the same result or error, after the same
\* number of line reads of its own stream; and until it ends, its start
\* line, its header buffer and its count are those of the lines it has
\* read from its own stream.
C15_Independent ==
    /\ Terminated =>
           /\ outcome = Alone(stream, reader).outcome
           /\ pos = Alone(stream, reader).pos
    /\ Ended(peer) =>
           /\ peer.outcome = Alone(peer.stream, peer.reader).outcome
           /\ peer.pos = Alone(peer.stream, peer.reader).pos
    /\ pc = "header_line" =>
           /\ start_line = stream[1]
           /\ header_lines = Written(stream, 2, pos)
           /\ num = pos - 1
    /\ peer.pc = "header_line" =>
           /\ peer.start_line = peer.stream[1]
           /\ peer.header_lines = Written(peer.stream, 2, peer.pos)
           /\ peer.num = peer.pos - 1

\* A call with MAX_HEADERS - 1 header lines returned next to a call with
\* one, which returned too: 256 header lines were read in all.
C15_Witness ==
    /\ pc = "returned" /\ peer.pc = "returned"
    /\ num + peer.num >= MAX_HEADERS - 1
    /\ stream # peer.stream

\* C16: read_line tests the length first and whatever the end of the line:
\* a line of more than MAX_LINE bytes fails with LineTooLong, with CRLF at
\* its end or without, and MissingTerminator is the error of lines of at
\* most MAX_LINE bytes only.
C16_LengthBeforeTerminator ==
    pos >= 1 =>
        /\ Len(LastLine) > MAX_LINE <=> outcome.error = LineTooLong
        /\ outcome.error = MissingTerminator =>
               Len(LastLine) <= MAX_LINE /\ ~EndsWith(LastLine, CRLF)

\* A header line of more than MAX_LINE bytes without CRLF was refused for
\* its length.
C16_Witness ==
    /\ pc = "raised" /\ outcome.error = LineTooLong
    /\ pos = 2 /\ ~EndsWith(LastLine, CRLF)

\* C17: the loop of read_message is left with success at the first line
\* after the start line that is CRLF and nothing else, and at no other
\* line: reading that line ends the read, and a read that returns has read
\* it last and no such line before.  Every other line read_line returns in
\* the loop, a line of blanks and tabs included, is written to the header
\* buffer and counted.
C17_TerminatorOnly ==
    /\ (pos >= 2 /\ LastLine = CRLF) =>
           Terminated /\ outcome.error \notin {TooManyHeaders, LineTooLong, MissingTerminator}
    /\ (reader = "read_message" /\ pos >= 2 /\ LastLine = CRLF) => pc = "returned"
    /\ pc = "returned" =>
           LastLine = CRLF /\ \A i \in 2..(pos - 1) : stream[i] # CRLF
    /\ pc = "header_line" =>
           /\ num = pos - 1
           /\ header_lines = Written(stream, 2, pos)
           /\ \A i \in 2..pos : stream[i] # CRLF
    /\ (pos >= 2 /\ WellFormedLine(LastLine) /\ LastLine # CRLF) =>
           /\ header_lines = Written(stream, 2, pos)
           /\ pc = "header_line" \/ outcome.error = TooManyHeaders

\* A line of a blank and a tab was read as a header line, and the read
\* returned at the blank line after it.
C17_Witness ==
    /\ pc = "returned" /\ pos = 3
    /\ stream[2] = HeaderBlanks
    /\ header_lines = HeaderBlanks \o CRLF

\* C18: a read cancelled while it waits for a line is abandoned: it has
\* produced no message and no error, it takes no further step, so it reads
\* no further line, and the lines it has read stay read: the cancellation
\* leaves the position in the stream where it was, and it is the only step
\* that reads no line.
C18_Cancelled ==
    /\ [](pc = "cancelled" => outcome = Pending)
    /\ [][/\ pc # "cancelled"
          /\ pc' = "cancelled" => pos' = pos
          /\ pos' = pos => pc' = "cancelled" /\ outcome' = Pending]_vars

\* A read was cancelled after its start line and one header line: the stream
\* stands in the middle of the message.
C18_Witness ==
    /\ pc = "cancelled" /\ pos = 2
    /\ Blanks(stream) # {} /\ pos < BlankAt(stream)
    /\ outcome = Pending

\* The errors of the header block and those of the start line.
HeaderBlockErrors == {LineTooLong, MissingTerminator, TooManyHeaders}
StartLineErrors ==
    {UnsupportedMethod, UnsupportedVersion, InvalidStatus, NotEnoughValues,
     UnicodeDecodeError}

\* C19: read_request and read_response test the start line after the
\* header block is read: an error of the start line is raised only once
\* the blank line has been read, and a message with a start line that
\* fails its tests and a header block that fails (a line too long or
\* without CRLF, or more than MAX_HEADERS header lines) is refused with
\* the error of the header block.
C19_HeaderBlockFirst ==
    /\ outcome.error \in StartLineErrors => MessageRead
    /\ (/\ Terminated /\ StartLineInvalid
        /\ ~Framed(stream) \/ HeaderCount(stream) > MAX_HEADERS) =>
           pc = "raised" /\ outcome.error \in HeaderBlockErrors

\* 'POST /chat HTTP/1.1' with more than MAX_HEADERS header lines was
\* refused for its header lines, not for its method.
C19_Witness ==
    /\ reader = "read_request" /\ RequestInvalid
    /\ Framed(stream) /\ HeaderCount(stream) > MAX_HEADERS
    /\ pc = "raised" /\ outcome.error = TooManyHeaders

\* The number of words of the text of the start line: of its runs of
\* characters that are no whitespace.
WordCount ==
    LET text == decode(StartLineBody).value
    IN  Cardinality({i \in 1..Len(text) :
            ~IsSpace(text[i]) /\ (i = 1 \/ IsSpace(text[i - 1]))})

\* C20: read_request and read_response never accept a start line of fewer
\* than three words: the read ends with an error, which is the error of
\* the unpacking once the message is read.  So a status line without a
\* reason, 'HTTP/1.1 200' with a blank after it or without, is refused:
\* the missing reason is not read as an empty one.
C20_FewerThanThreeFieldsRefused ==
    (/\ reader \in {"read_request", "read_response"} /\ Terminated
     /\ StartLineDecodes /\ WordCount < 3) =>
        /\ pc = "raised"
        /\ MessageRead => outcome.error = NotEnoughValues

\* 'HTTP/1.1 200 ' and its header block were read, and the read failed at
\* the unpacking.
C20_Witness ==
    /\ reader = "read_response" /\ MessageRead
    /\ stream[1] = StatusLineEmptyReason
    /\ pc = "raised" /\ outcome.error = NotEnoughValues

====
